---- MODULE Spec2Model ----
(***************************************************************************)
(* Record/playback session controller of the audio recorder application:   *)
(* the Android native module AudioModule (Kotlin), its recording thread    *)
(* (writeAudioDataToFile) and its playback thread, together with the       *)
(* storage directory they share.                                           *)
(*                                                                         *)
(* The @ReactMethod entry points run one at a time on the native-modules   *)
(* thread (variable ctl); the recording thread and the playback thread run *)
(* concurrently with it and with each other.  stopRecording and            *)
(* stopPlayback block in Thread.join(), so each is split into the part     *)
(* before the join and the part after it.                                  *)
(*                                                                         *)
(* Sizes and offsets are in bytes.  Files are modelled as a directory      *)
(* (name -> inode) and an inode table (inode -> size), because an open     *)
(* stream keeps its inode when the name is deleted or re-created.  The     *)
(* file of name n has inode n + 1 while it is linked; an inode that is     *)
(* deleted while a stream has it open is renumbered to a detached slot.    *)
(***************************************************************************)
EXTENDS Integers, Sequences, FiniteSets, TLC

\* ---------------------------------------------------------------- bounds
\* The wall clock, in whole seconds, runs from 0 to MaxClock.
MaxClock == 1
\* Capacity of the storage, in bytes: a write beyond it fails.
MaxStorage == 4
\* iOS: the longest file that is recorded or given to playRecording, in
\* bytes.
MaxPcm == 256
\* iOS: calls of startRecording that can wait for the permission answer.
MaxPending == 1
\* RecordScreen: handlers, and interval callbacks, that can be waiting for
\* a native call at a time.
MaxTasks == 2
MaxPolls == 1

\* ------------------------------------------------------- program constants
\* AudioRecord.getMinBufferSize(...): size of one capture buffer, in bytes.
BUFFER_SIZE == 4
\* AudioTrack.getMinBufferSize(...): size of one playback buffer, in bytes.
minBufferSize == 2
\* SAMPLE_RATE, in frames per second.
SAMPLE_RATE == 44100
\* getPlaybackStatus: bytesPerSecond = SAMPLE_RATE * 2 * 1 (16-bit PCM, mono).
bytesPerSecond == SAMPLE_RATE * 2 * 1
\* filePath: String? = null
NullPath == 0 - 1
\* directory entry of a name that has no file
NoInode == 0

\* Timestamps the clock can take; recording_<t>.pcm is named by t.
Stamps == 0..MaxClock
\* File names a caller can pass: every recording name, and one name that
\* no recording ever gets.
FileNames == 0..(MaxClock + 1)
\* Inodes: one per recording name, and two for files that were deleted
\* while the capture or the playback stream had them open.
Inodes == 1..(MaxClock + 3)
Detached == (MaxClock + 2)..(MaxClock + 3)

VARIABLES
    clock,                 \* System.currentTimeMillis() / 1000
    dir,                   \* storage directory: file name -> inode or NoInode
    inodes,                \* inode -> size in bytes
    isRecording,           \* AudioModule.isRecording
    audioRecord,           \* AudioModule.audioRecord: "null" or "record" (a live handle)
    filePath,              \* AudioModule.filePath: a name or NullPath
    rec,                   \* the recording thread: [pc, file, ino]
    audioMode,             \* AudioManager.mode
    serviceRequested,      \* AudioRecordingService asked to run
    isPlaying,             \* AudioModule.isPlaying
    audioTrack,            \* AudioModule.audioTrack: "null" or "track" (a live handle)
    playbackBytesWritten,  \* AudioModule.playbackBytesWritten
    playbackTotalBytes,    \* AudioModule.playbackTotalBytes
    play,                  \* the playback thread: [pc, ino, off, read, exit]
    ctl,                   \* native-modules thread: "idle", "joinRec", "joinPlay"
    result,                \* the promise settled by the last step, if it settled one
    sessionLive,           \* history: a start resolved and no stop was accepted since
    hist                   \* history: recs, plays: threads of each kind that are
                           \* alive; made: the thread of the latest session
                           \* created its file and filePath was not deleted
                           \* since; buffers: whole buffers it wrote to it;
                           \* late: writes of the recording thread since
                           \* stopRecording cleared the run flag, until
                           \* stopRecording returns

\* The callers of the controller.  Under Spec none of them runs: Spec is
\* the controller with every call of every caller allowed at any time.
VARIABLES
    wrapper,               \* audioUtils.js: one call of the startRecording wrapper
    ios,                   \* the iOS AudioModule (Swift) and its Documents directory
    ui,                    \* RecordScreen: its state, effects and running handlers
    bridge                 \* React Native bridge: calls to and replies from native

captureVars == <<isRecording, audioRecord, filePath, rec, audioMode, serviceRequested>>
playbackVars == <<isPlaying, audioTrack, playbackBytesWritten, playbackTotalBytes, play>>
fileVars == <<clock, dir, inodes>>
vars == <<clock, dir, inodes, isRecording, audioRecord, filePath, rec, audioMode,
          serviceRequested, isPlaying, audioTrack, playbackBytesWritten,
          playbackTotalBytes, play, ctl, result, sessionLive, hist,
          wrapper, ios, ui, bridge>>
shellVars == <<wrapper, ios, ui, bridge>>

\* ------------------------------------------------------------------ helpers
Min(a, b) == IF a < b THEN a ELSE b

\* promise.resolve / promise.reject: what the caller is told.
Settled(op, code, val) == [op |-> op, code |-> code, val |-> val]

\* The last step settled no promise.
NoResult == Settled("none", "none", <<>>)

\* An inode is in use while a name or an open stream refers to it.
InUse(d, r, p) == {d[n] : n \in FileNames} \cup {r, p}

\* Storage of unreferenced inodes is given back.
Reclaim(sizes, d, r, p) ==
    [i \in Inodes |-> IF i \in InUse(d, r, p) THEN sizes[i] ELSE 0]

\* The inode a newly created file of this name gets.
InodeOf(name) == name + 1

\* The slot an inode moves to when its name is deleted under an open stream.
FreeSlot == CHOOSE i \in Detached :
    /\ i \notin {rec.ino, play.ino}
    /\ \A j \in Detached : j \notin {rec.ino, play.ino} => i <= j

\* A stream's inode after the inode was renumbered.
Moved(ino, from, to) == IF ino = from THEN to ELSE ino

\* The values an outcome of the environment is drawn from: both where the
\* code gets as far as asking for it, otherwise a single one.
Asked(reached) == IF reached THEN BOOLEAN ELSE {TRUE}

\* hist.buffers when the session wrote something other than whole buffers.
Mixed == 0 - 1

\* A thread of this kind was started (ended).
Spawned(h, kind) == [h EXCEPT ![kind] = @ + 1]
Ended(h, kind) == [h EXCEPT ![kind] = @ - 1]

\* filePath was assigned: it names no file of a session yet.
Renamed(h) == [h EXCEPT !.made = FALSE, !.buffers = 0]

\* The session appended n bytes to its file (counted while filePath names
\* that file).
Appended(h, n) ==
    [h EXCEPT !.buffers = IF ~h.made THEN 0
                          ELSE IF @ = Mixed \/ n # BUFFER_SIZE THEN Mixed
                          ELSE @ + 1,
              !.late = IF isRecording THEN @ ELSE @ + 1]

\* stopRecording cleared the run flag (returned): nothing written since.
Cleared(h) == [h EXCEPT !.late = 0]

\* The file of this name was deleted.
Unlinked(h, name) == IF name = filePath THEN Renamed(h) ELSE h

\* Bytes of storage the files take.
RECURSIVE SizeOfFirst(_, _)
SizeOfFirst(sizes, i) == IF i = 0 THEN 0 ELSE sizes[i] + SizeOfFirst(sizes, i - 1)
Used(sizes) == SizeOfFirst(sizes, MaxClock + 3)

\* File(storageDir, name).exists()
FileExists(name) == dir[name] # NoInode

\* Byte counts AudioRecord.read can deliver: whole 16-bit frames, at most
\* one buffer.
ReadSizes == {n \in 1..BUFFER_SIZE : n % 2 = 0}

\* ------------------------------------------------------------------ Init
\* The fields of a new AudioModule.
ControllerInit ==
    /\ isRecording = FALSE
    /\ audioRecord = "null"
    /\ filePath = NullPath
    /\ rec = [pc |-> "none", file |-> NullPath, ino |-> NoInode]
    /\ audioMode = "NORMAL"
    /\ serviceRequested = FALSE
    /\ isPlaying = FALSE
    /\ audioTrack = "null"
    /\ playbackBytesWritten = 0
    /\ playbackTotalBytes = 0
    /\ play = [pc |-> "none", ino |-> NoInode, off |-> 0, read |-> 0, exit |-> "none"]
    /\ ctl = "idle"
    /\ result = NoResult
    /\ sessionLive = FALSE
    /\ hist = [recs |-> 0, plays |-> 0, made |-> FALSE, buffers |-> 0, late |-> 0]

\* A new AudioModule over an empty storage directory.
AndroidInit ==
    /\ clock = 0
    /\ dir = [n \in FileNames |-> NoInode]
    /\ inodes = [i \in Inodes |-> 0]
    /\ ControllerInit

\* A caller that is not running.
Off == [pc |-> "off"]

Init ==
    /\ AndroidInit
    /\ wrapper = Off
    /\ ios = Off
    /\ ui = Off
    /\ bridge = Off

\* The clock advances by one second.
Tick ==
    /\ clock < MaxClock
    /\ clock' = clock + 1
    /\ result' = NoResult
    /\ UNCHANGED <<dir, inodes, captureVars, playbackVars, ctl, sessionLive, hist>>

\* getRecordingFile(): recording_<timestamp>.pcm
getRecordingFile == clock

\* ------------------------------------------------------- capture: control
\* startRecording: the guard on the run flag.
CaptureBusyOff == FALSE
CaptureBusy == isRecording

\* startRecording: the run flag after audioRecord.startRecording() threw
\* (the flag is only raised after the device has started).
FlagAfterDeviceStartFailureOn == TRUE
FlagAfterDeviceStartFailure == isRecording

\* startForegroundNotification() and stopForegroundNotification() catch
\* every Exception of the service call: none reaches the caller.
NotificationThrowsOnFailure(ok) == ~ok
NotificationThrows(ok) == FALSE

\* startRecording: the trial AudioRecord came up STATE_INITIALIZED.
MicrophoneAssumed(probe) == TRUE
MicrophoneAvailable(probe) == probe

\* startForegroundNotification(): the exception is swallowed.
startForegroundNotification(ok) == IF ok THEN TRUE ELSE serviceRequested

\* stopForegroundNotification(): the exception is swallowed.
stopForegroundNotification(ok) == IF ok THEN FALSE ELSE serviceRequested

\* startRecording(promise).  granted: RECORD_AUDIO permission; probe: the
\* trial AudioRecord initialised; acq: the real AudioRecord initialised;
\* devStart: audioRecord.startRecording() did not throw; svc: the
\* foreground service could be started.  (The outer catch is entered only
\* by an exception out of startForegroundNotification: the constructor
\* that could throw has just succeeded with the same arguments in the
\* probe, and every other statement handles its own exceptions.)
StartRecordingWith(granted, probe, acq, devStart, svc) ==
    /\ ctl = "idle"
    /\ UNCHANGED <<fileVars, playbackVars, ctl>>
    /\ IF CaptureBusy THEN
            /\ result' = Settled("startRecording", "record_error:already", <<>>)
            /\ UNCHANGED <<captureVars, sessionLive, hist>>
       ELSE IF ~granted THEN
            /\ result' = Settled("startRecording", "permission_denied", <<>>)
            /\ UNCHANGED <<captureVars, sessionLive, hist>>
       ELSE IF ~MicrophoneAvailable(probe) THEN
            /\ result' = Settled("startRecording", "record_error:unavailable", <<>>)
            /\ UNCHANGED <<captureVars, sessionLive, hist>>
       ELSE IF ~acq THEN
            \* audioRecordTemp.release(); audioManager.mode = originalMode
            /\ filePath' = getRecordingFile
            /\ result' = Settled("startRecording", "record_error:init", <<>>)
            /\ hist' = Renamed(hist)
            /\ UNCHANGED <<isRecording, audioRecord, rec, audioMode,
                           serviceRequested, sessionLive>>
       ELSE IF ~devStart THEN
            \* inner catch (IllegalStateException)
            /\ filePath' = getRecordingFile
            /\ audioRecord' = "null"
            /\ isRecording' = FlagAfterDeviceStartFailure
            /\ result' = Settled("startRecording", "record_error:start", <<>>)
            /\ hist' = Renamed(hist)
            /\ UNCHANGED <<rec, audioMode, serviceRequested, sessionLive>>
       ELSE IF NotificationThrows(svc) THEN
            \* outer catch: release, audioRecord = null, isRecording = false
            /\ filePath' = getRecordingFile
            /\ audioMode' = "IN_COMMUNICATION"
            /\ audioRecord' = "null"
            /\ isRecording' = FALSE
            /\ hist' = Renamed(hist)
            /\ result' = Settled("startRecording", "record_error:failed", <<>>)
            /\ UNCHANGED <<rec, serviceRequested, sessionLive>>
       ELSE
            /\ filePath' = getRecordingFile
            /\ audioMode' = "IN_COMMUNICATION"
            /\ audioRecord' = "record"
            /\ isRecording' = TRUE
            /\ serviceRequested' = startForegroundNotification(svc)
            /\ rec' = [pc |-> "open", file |-> getRecordingFile, ino |-> NoInode]
            /\ result' = Settled("startRecording", "resolved", <<getRecordingFile>>)
            /\ sessionLive' = TRUE
            /\ hist' = Spawned(Renamed(hist), "recs")

StartRecording ==
    \E granted \in Asked(~CaptureBusy) :
    \E probe \in Asked(~CaptureBusy /\ granted) :
    \E acq \in Asked(~CaptureBusy /\ granted /\ probe) :
    \E devStart \in Asked(~CaptureBusy /\ granted /\ probe /\ acq) :
    \E svc \in Asked(~CaptureBusy /\ granted /\ probe /\ acq /\ devStart) :
        StartRecordingWith(granted, probe, acq, devStart, svc)

\* stopRecording: the guard on the run flag.
CaptureIdleOff == FALSE
CaptureIdle == ~isRecording

\* stopRecording(promise), up to recordingThread.join().
StopRecording ==
    /\ ctl = "idle"
    /\ UNCHANGED <<fileVars, playbackVars>>
    /\ IF CaptureIdle THEN
            /\ result' = Settled("stopRecording", "not_recording", <<>>)
            /\ UNCHANGED <<captureVars, ctl, sessionLive, hist>>
       ELSE
            /\ isRecording' = FALSE
            /\ ctl' = "joinRec"
            /\ sessionLive' = FALSE
            /\ hist' = Cleared(hist)
            /\ UNCHANGED <<audioRecord, filePath, rec, audioMode, serviceRequested>>
            /\ result' = NoResult

\* Thread.join() returns once the thread has terminated.
JoinedAnyway(t) == TRUE
Joined(t) == t.pc = "done"

\* stopRecording: the run flag when the catch block is left.
FlagAfterFailedStopOn == TRUE
FlagAfterFailedStop == isRecording

\* stopRecording(promise), from the return of join() on.  devStop:
\* audioRecord.stop() and release() did not throw; svc: the foreground
\* service could be stopped.  join() on the lateinit thread that was never
\* assigned throws.
StopRecordingJoinedWith(devStop, svc) ==
    /\ ctl = "joinRec"
    /\ rec.pc = "none" \/ Joined(rec)
    /\ ctl' = "idle"
    /\ hist' = Cleared(hist)
    /\ UNCHANGED <<fileVars, playbackVars, filePath, rec, sessionLive>>
    /\ IF rec.pc = "none" \/ ~devStop THEN
            /\ isRecording' = FlagAfterFailedStop
            /\ result' = Settled("stopRecording", "stop_error", <<>>)
            /\ UNCHANGED <<audioRecord, audioMode, serviceRequested>>
       ELSE IF NotificationThrows(svc) THEN
            /\ audioRecord' = "null"
            /\ audioMode' = "NORMAL"
            /\ isRecording' = FlagAfterFailedStop
            /\ result' = Settled("stopRecording", "stop_error", <<>>)
            /\ UNCHANGED serviceRequested
       ELSE
            /\ audioRecord' = "null"
            /\ audioMode' = "NORMAL"
            /\ serviceRequested' = stopForegroundNotification(svc)
            /\ result' = Settled("stopRecording", "resolved", <<filePath>>)
            /\ UNCHANGED isRecording

StopRecordingJoined ==
    \E devStop \in Asked(rec.pc # "none") :
    \E svc \in Asked(rec.pc # "none" /\ devStop) :
        StopRecordingJoinedWith(devStop, svc)

\* -------------------------------------------------------- capture: thread
\* writeAudioDataToFile: FileOutputStream(file) creates the file or
\* truncates the existing one; opened = FALSE: it threw IOException.
RecOpenWith(opened) ==
    /\ rec.pc = "open"
    /\ UNCHANGED <<clock, isRecording, audioRecord, filePath, audioMode,
                   serviceRequested, playbackVars, ctl, sessionLive>>
    /\ result' = NoResult
    /\ IF ~opened THEN
            /\ rec' = [pc |-> "done", file |-> NullPath, ino |-> NoInode]
            /\ hist' = Ended(hist, "recs")
            /\ UNCHANGED <<dir, inodes>>
       ELSE LET i == InodeOf(rec.file) IN
            /\ dir' = [dir EXCEPT ![rec.file] = i]
            /\ inodes' = [inodes EXCEPT ![i] = 0]
            /\ rec' = [rec EXCEPT !.pc = "test", !.ino = i]
            /\ hist' = [hist EXCEPT !.made = TRUE, !.buffers = 0]

RecOpen == \E opened \in BOOLEAN : RecOpenWith(opened)

\* writeAudioDataToFile: the loop condition, while (isRecording).
LoopConditionHeld == TRUE
LoopCondition == isRecording

\* writeAudioDataToFile: while (isRecording); leaving the loop closes the
\* stream.
RecTest ==
    /\ rec.pc = "test"
    /\ UNCHANGED <<clock, dir, isRecording, audioRecord, filePath, audioMode,
                   serviceRequested, playbackVars, ctl, sessionLive>>
    /\ result' = NoResult
    /\ IF LoopCondition THEN
            /\ rec' = [rec EXCEPT !.pc = "chunk"]
            /\ UNCHANGED <<inodes, hist>>
       ELSE
            /\ rec' = [pc |-> "done", file |-> NullPath, ino |-> NoInode]
            /\ inodes' = Reclaim(inodes, dir, NoInode, play.ino)
            /\ hist' = Ended(hist, "recs")

\* os.write(data, 0, read): the bytes appended for a read of n bytes.
WriteLengthOffByOne(n) == n - 1
WriteLength(n) == n

\* writeAudioDataToFile: one read from the device and its write.  n: the
\* value read() returned (0 stands for every value <= 0); wr: os.write did
\* not throw.  A write that fails, or that does not fit the storage, throws
\* IOException: use{} closes the stream and the catch ends the thread.
RecChunkWith(n, wr) ==
    /\ rec.pc = "chunk"
    /\ UNCHANGED <<clock, dir, isRecording, audioRecord, filePath, audioMode,
                   serviceRequested, playbackVars, ctl, sessionLive>>
    /\ result' = NoResult
    /\ IF n <= 0 THEN
            /\ rec' = [rec EXCEPT !.pc = "test"]
            /\ UNCHANGED <<inodes, hist>>
       ELSE IF wr /\ Used(inodes) + WriteLength(n) <= MaxStorage THEN
            /\ inodes' = [inodes EXCEPT ![rec.ino] = @ + WriteLength(n)]
            /\ rec' = [rec EXCEPT !.pc = "test"]
            /\ hist' = Appended(hist, n)
       ELSE
            /\ rec' = [pc |-> "done", file |-> NullPath, ino |-> NoInode]
            /\ inodes' = Reclaim(inodes, dir, NoInode, play.ino)
            /\ hist' = Ended(hist, "recs")

RecChunk ==
    \E n \in ReadSizes \cup {0} :
    \E wr \in Asked(n > 0) :
        RecChunkWith(n, wr)

\* ------------------------------------------------------ playback: control
\* playRecording: the guard on the run flag.
PlaybackBusyShared == isPlaying \/ isRecording
PlaybackBusyOff == FALSE
PlaybackBusy == isPlaying

\* playRecording: the run flag when the catch block is left.
FlagAfterPlayFailureOn == TRUE
FlagAfterPlayFailure == FALSE

\* file.length().toInt()
FileLengthInFrames(fileName) == inodes[dir[fileName]] \div 2
FileLength(fileName) == inodes[dir[fileName]]

\* playRecording(fileName, promise).  trackOk: the AudioTrack constructor
\* did not throw.
PlayRecordingWith(fileName, trackOk) ==
    /\ ctl = "idle"
    /\ UNCHANGED <<fileVars, captureVars, ctl, sessionLive>>
    /\ IF PlaybackBusy THEN
            /\ result' = Settled("playRecording", "playback_error:already", <<>>)
            /\ UNCHANGED <<playbackVars, hist>>
       ELSE IF ~FileExists(fileName) THEN
            \* FileInputStream(file) throws FileNotFoundException
            /\ isPlaying' = FlagAfterPlayFailure
            /\ result' = Settled("playRecording", "playback_error:not_found", <<>>)
            /\ UNCHANGED <<audioTrack, playbackBytesWritten, playbackTotalBytes, play,
                           hist>>
       ELSE IF ~trackOk THEN
            /\ isPlaying' = FlagAfterPlayFailure
            /\ result' = Settled("playRecording", "playback_error:failed", <<>>)
            /\ UNCHANGED <<audioTrack, playbackBytesWritten, playbackTotalBytes, play,
                           hist>>
       ELSE
            /\ audioTrack' = "track"
            /\ isPlaying' = TRUE
            /\ playbackBytesWritten' = 0
            /\ playbackTotalBytes' = FileLength(fileName)
            /\ play' = [pc |-> "test", ino |-> dir[fileName], off |-> 0,
                        read |-> 0, exit |-> "none"]
            /\ result' = Settled("playRecording", "resolved", <<>>)
            /\ hist' = Spawned(hist, "plays")

PlayRecording ==
    \E fileName \in FileNames :
    \E trackOk \in Asked(~PlaybackBusy /\ FileExists(fileName)) :
        PlayRecordingWith(fileName, trackOk)

\* stopPlayback: the test of the run flag.
PlaybackRunningAssumed == TRUE
PlaybackRunning == isPlaying

\* stopPlayback(promise), up to playbackThread.join().
StopPlayback ==
    /\ ctl = "idle"
    /\ UNCHANGED <<fileVars, captureVars, sessionLive, hist>>
    /\ IF PlaybackRunning THEN
            /\ isPlaying' = FALSE
            /\ ctl' = "joinPlay"
            /\ UNCHANGED <<audioTrack, playbackBytesWritten, playbackTotalBytes,
                           play>>
            /\ result' = NoResult
       ELSE
            /\ result' = Settled("stopPlayback", "stopped:false", <<>>)
            /\ UNCHANGED <<playbackVars, ctl>>

\* stopPlayback(promise), from the return of join() on.
StopPlaybackJoined ==
    /\ ctl = "joinPlay"
    /\ Joined(play)
    /\ ctl' = "idle"
    /\ audioTrack' = "null"
    /\ result' = Settled("stopPlayback", "stopped:true", <<>>)
    /\ UNCHANGED <<fileVars, captureVars, sessionLive, hist, isPlaying,
                   playbackBytesWritten, playbackTotalBytes, play>>

\* getPlaybackStatus(promise): position and duration are the two counters
\* divided by bytesPerSecond.  The reply is kept as the two dividends and
\* the divisor: position = val[1] / val[3], duration = val[2] / val[3].
GetPlaybackStatus ==
    /\ ctl = "idle"
    /\ result' = Settled("getPlaybackStatus", "resolved",
                         <<playbackBytesWritten, playbackTotalBytes, bytesPerSecond>>)
    /\ UNCHANGED <<fileVars, captureVars, playbackVars, ctl, sessionLive, hist>>

\* getRecordings: the filter name.startsWith("recording_") &&
\* name.endsWith(".pcm"); the names getRecordingFile makes pass it.
IsRecordingNameNever(name) == FALSE
IsRecordingName(name) == name \in Stamps

\* sortedDescending()
RECURSIVE SortedDescending(_)
SortedDescending(names) ==
    IF names = {} THEN <<>>
    ELSE LET top == CHOOSE n \in names : \A m \in names : m <= n
         IN  <<top>> \o SortedDescending(names \ {top})

\* getRecordings(promise): what the call resolves with; it changes nothing.
getRecordings ==
    SortedDescending({n \in FileNames : FileExists(n) /\ IsRecordingName(n)})

\* file.delete(): the directory without the name.
RemovedAll(d, fileName) == [n \in FileNames |-> NoInode]
Removed(d, fileName) == [d EXCEPT ![fileName] = NoInode]

\* deleteRecording(fileName, promise): file.delete() removes the name; a
\* stream that has the file open keeps the inode (renumbered here).
DeleteRecordingOf(fileName) ==
    /\ ctl = "idle"
    /\ UNCHANGED <<clock, isRecording, audioRecord, filePath, audioMode,
                   serviceRequested, isPlaying, audioTrack, playbackBytesWritten,
                   playbackTotalBytes, ctl, sessionLive>>
    /\ IF FileExists(fileName) THEN
            LET i == dir[fileName]
                open == i \in {rec.ino, play.ino}
                to == IF open THEN FreeSlot ELSE i
            IN  /\ dir' = Removed(dir, fileName)
                /\ rec' = [rec EXCEPT !.ino = Moved(@, i, to)]
                /\ play' = [play EXCEPT !.ino = Moved(@, i, to)]
                /\ inodes' = [j \in Inodes |->
                                IF j = i THEN 0
                                ELSE IF j = to THEN inodes[i] ELSE inodes[j]]
                /\ hist' = Unlinked(hist, fileName)
                /\ result' = Settled("deleteRecording", "true", <<>>)
       ELSE
            /\ result' = Settled("deleteRecording", "false", <<>>)
            /\ UNCHANGED <<dir, inodes, rec, play, hist>>

DeleteRecording == \E fileName \in FileNames : DeleteRecordingOf(fileName)

\* ------------------------------------------------------- playback: thread
\* Bytes fileInputStream.read(buffer) returns; <= 0 stands for end of file.
StreamRead(t) == Min(minBufferSize, inodes[t.ino] - t.off)

\* After the loop: audioTrack?.stop(); audioTrack?.release();
\* audioTrack = null; fileInputStream.close().  Nothing else looks at the
\* handle or the stream while the thread lives, so this is one step with
\* the test that left the loop.  exit records how the loop was left.
LeaveLoop(why) ==
    /\ audioTrack' = "null"
    /\ play' = [pc |-> "finish", ino |-> NoInode, off |-> 0, read |-> 0, exit |-> why]
    /\ inodes' = Reclaim(inodes, dir, rec.ino, NoInode)

\* audioTrack?.play() on entry, then
\* while (isPlaying && fileInputStream.read(buffer).also { read = it } > 0).
\* io = FALSE: the read threw, which the catch around the loop logs.
PlayTestWith(io) ==
    /\ play.pc = "test"
    /\ UNCHANGED <<clock, dir, captureVars, isPlaying,
                   playbackBytesWritten, playbackTotalBytes, ctl, sessionLive, hist>>
    /\ result' = NoResult
    /\ IF ~isPlaying THEN
            LeaveLoop("flag")
       ELSE IF ~io THEN
            LeaveLoop("error")
       ELSE IF StreamRead(play) > 0 THEN
            /\ play' = [play EXCEPT !.pc = "write", !.read = StreamRead(play),
                                    !.off = @ + StreamRead(play)]
            /\ UNCHANGED <<audioTrack, inodes>>
       ELSE
            LeaveLoop("eof")

PlayTest == \E io \in Asked(isPlaying) : PlayTestWith(io)

\* audioTrack?.write(buffer, 0, read); playbackBytesWritten += read
PlayWrite ==
    /\ play.pc = "write"
    /\ playbackBytesWritten' = playbackBytesWritten + play.read
    /\ play' = [play EXCEPT !.pc = "test"]
    /\ UNCHANGED <<fileVars, captureVars, isPlaying, audioTrack,
                   playbackTotalBytes, ctl, sessionLive, hist>>
    /\ result' = NoResult

\* The last statement of the playback thread.
FlagAtThreadEndKept == isPlaying
FlagAtThreadEnd == FALSE

\* isPlaying = false, and the thread ends.
PlayFinish ==
    /\ play.pc = "finish"
    /\ isPlaying' = FlagAtThreadEnd
    /\ play' = [play EXCEPT !.pc = "done"]
    /\ hist' = Ended(hist, "plays")
    /\ UNCHANGED <<fileVars, captureVars, audioTrack, playbackBytesWritten,
                   playbackTotalBytes, ctl, sessionLive>>
    /\ result' = NoResult

\* The steps of the playback thread.
PlayThread == PlayTest \/ PlayWrite \/ PlayFinish

\* The steps of the recording thread.
RecThread == RecOpen \/ RecTest \/ RecChunk

Next ==
    \/ Tick /\ UNCHANGED shellVars
    \/ StartRecording /\ UNCHANGED shellVars
    \/ StopRecording /\ UNCHANGED shellVars
    \/ StopRecordingJoined /\ UNCHANGED shellVars
    \/ RecOpen /\ UNCHANGED shellVars
    \/ RecTest /\ UNCHANGED shellVars
    \/ RecChunk /\ UNCHANGED shellVars
    \/ PlayRecording /\ UNCHANGED shellVars
    \/ StopPlayback /\ UNCHANGED shellVars
    \/ StopPlaybackJoined /\ UNCHANGED shellVars
    \/ GetPlaybackStatus /\ UNCHANGED shellVars
    \/ DeleteRecording /\ UNCHANGED shellVars
    \/ PlayTest /\ UNCHANGED shellVars
    \/ PlayWrite /\ UNCHANGED shellVars
    \/ PlayFinish /\ UNCHANGED shellVars

Spec == Init /\ [][Next]_vars

\* The scheduler lets a live playback thread run, and the device accepts
\* what it is given: the playback thread keeps taking steps.
FairSpec == Init /\ [][Next]_vars /\ WF_vars(PlayThread /\ UNCHANGED shellVars)

\* The scheduler lets a live recording thread run, every AudioRecord.read
\* returns, and the native-modules thread blocked in join() resumes once
\* the thread has ended.
FairStopSpec ==
    /\ Init /\ [][Next]_vars
    /\ WF_vars(RecThread /\ UNCHANGED shellVars)
    /\ WF_vars(StopRecordingJoined /\ UNCHANGED shellVars)

\* ---------------------------------------- audioUtils.js: startRecording
\* How an awaited call ends: it resolves true, resolves false, or throws.
Outcomes == {"true", "false", "threw"}

\* The wrapper before a call.  v33: Platform.Version >= 33.  The checks
\* the call has not reached are "unset"; started counts its invocations of
\* AudioModule.startRecording; alert is the last Alert.alert title; out is
\* what the call returned or threw.
WrapperIdle(v33) ==
    [pc |-> "idle", v33 |-> v33,
     hasAudioPermission |-> "unset", isMicrophoneAvailable |-> "unset",
     hasNotificationPermission |-> "unset", notificationSupported |-> "unset",
     started |-> 0, alert |-> "none", out |-> NoResult]

\* return granted === PermissionsAndroid.RESULTS.GRANTED, return isAvailable,
\* and the catch blocks that return false.
Truth(outcome) == IF outcome = "true" THEN "true" ELSE "false"

\* throw new Error(...) inside the try: the catch alerts 'Recording Error'
\* and rethrows.
WrapperThrows(w, error) ==
    [w EXCEPT !.pc = "threw", !.alert = "Recording Error",
              !.out = Settled("startRecording", error, <<>>)]

\* A step of the wrapper that calls nothing of the controller.
WrapperOnly ==
    /\ result' = NoResult
    /\ UNCHANGED <<fileVars, captureVars, playbackVars, ctl, sessionLive, hist,
                   ios, ui, bridge>>

\* startRecording(): up to await AudioModule.checkAudioPermission().
WrapperCall ==
    /\ wrapper.pc \in {"idle", "returned", "threw"}
    /\ wrapper' = [WrapperIdle(wrapper.v33) EXCEPT !.pc = "checkAudioPermission"]
    /\ WrapperOnly

\* if (!hasAudioPermission)
AudioPermissionMissing(has) == has # "true"

\* checkAudioPermission() after AudioModule.checkAudioPermission() ended.
\* Without the permission Platform.OS === 'android' goes on to request it.
WrapperAudioChecked(outcome) ==
    /\ wrapper.pc = "checkAudioPermission"
    /\ WrapperOnly
    /\ IF outcome = "false" THEN
            wrapper' = [wrapper EXCEPT !.pc = "requestAudioPermission"]
       ELSE IF AudioPermissionMissing(Truth(outcome)) THEN
            wrapper' = WrapperThrows(
                [wrapper EXCEPT !.hasAudioPermission = Truth(outcome)],
                "Microphone permission not granted")
       ELSE
            wrapper' = [wrapper EXCEPT !.hasAudioPermission = Truth(outcome),
                                       !.pc = "checkMicrophoneAvailable"]

\* checkAudioPermission() after PermissionsAndroid.request(RECORD_AUDIO)
\* ended; then startRecording() up to await checkMicrophoneAvailable().
WrapperAudioRequested(outcome) ==
    /\ wrapper.pc = "requestAudioPermission"
    /\ WrapperOnly
    /\ IF AudioPermissionMissing(Truth(outcome)) THEN
            wrapper' = WrapperThrows(
                [wrapper EXCEPT !.hasAudioPermission = Truth(outcome)],
                "Microphone permission not granted")
       ELSE
            wrapper' = [wrapper EXCEPT !.hasAudioPermission = Truth(outcome),
                                       !.pc = "checkMicrophoneAvailable"]

\* if (!isMicrophoneAvailable)
MicrophoneMissingNever(avail) == FALSE
MicrophoneMissing(avail) == avail # "true"

\* checkMicrophoneAvailable() ended; then checkNotificationPermission() up
\* to its await, which it has only on Android 13 and later.
WrapperMicrophoneChecked(outcome) ==
    /\ wrapper.pc = "checkMicrophoneAvailable"
    /\ WrapperOnly
    /\ IF MicrophoneMissing(Truth(outcome)) THEN
            wrapper' = WrapperThrows(
                [wrapper EXCEPT !.isMicrophoneAvailable = Truth(outcome)],
                "Microphone is not available or being used by another app")
       ELSE IF wrapper.v33 THEN
            wrapper' = [wrapper EXCEPT !.isMicrophoneAvailable = Truth(outcome),
                                       !.pc = "requestNotificationPermission"]
       ELSE
            wrapper' = [wrapper EXCEPT !.isMicrophoneAvailable = Truth(outcome),
                                       !.hasNotificationPermission = "true",
                                       !.pc = "checkNotificationSupport"]

\* checkNotificationPermission() after PermissionsAndroid.request(
\* POST_NOTIFICATIONS) ended: without the permission the wrapper only warns.
WrapperNotificationRequested(outcome) ==
    /\ wrapper.pc = "requestNotificationPermission"
    /\ WrapperOnly
    /\ wrapper' = [wrapper EXCEPT !.hasNotificationPermission = Truth(outcome),
                                  !.pc = "checkNotificationSupport"]

\* The try/catch around AudioModule.checkNotificationSupport() lets no
\* exception out.
SupportCheckEscapesWhenThrown(outcome) == outcome = "threw"
SupportCheckEscapes(outcome) == FALSE

\* await AudioModule.checkNotificationSupport() ended.
WrapperSupportChecked(outcome) ==
    /\ wrapper.pc = "checkNotificationSupport"
    /\ WrapperOnly
    /\ IF SupportCheckEscapes(outcome) THEN
            wrapper' = WrapperThrows(
                [wrapper EXCEPT !.notificationSupported = outcome],
                "checkNotificationSupport")
       ELSE
            wrapper' = [wrapper EXCEPT !.notificationSupported = outcome,
                                       !.pc = "startRecording"]

\* const result = await AudioModule.startRecording(); return result; a
\* rejection goes through the catch (alert, rethrow).
WrapperNativeStart ==
    /\ wrapper.pc = "startRecording"
    /\ StartRecording
    /\ wrapper' = IF result'.code = "resolved"
                  THEN [wrapper EXCEPT !.pc = "returned", !.started = @ + 1,
                                       !.out = result']
                  ELSE [WrapperThrows(wrapper, "native")
                            EXCEPT !.started = @ + 1, !.out = result']
    /\ UNCHANGED <<ios, ui, bridge>>

\* The wrapper on Android.
WrapperInit ==
    /\ AndroidInit
    /\ \E v33 \in BOOLEAN : wrapper = WrapperIdle(v33)
    /\ ios = Off
    /\ ui = Off
    /\ bridge = Off

\* The wrapper is the only caller of AudioModule.startRecording; the
\* session it starts runs, and is stopped, as under Spec.
WrapperNext ==
    \/ WrapperCall
    \/ \E outcome \in Outcomes : WrapperAudioChecked(outcome)
    \/ \E outcome \in Outcomes : WrapperAudioRequested(outcome)
    \/ \E outcome \in Outcomes : WrapperMicrophoneChecked(outcome)
    \/ \E outcome \in Outcomes : WrapperNotificationRequested(outcome)
    \/ \E outcome \in Outcomes : WrapperSupportChecked(outcome)
    \/ WrapperNativeStart
    \/ StopRecording /\ UNCHANGED shellVars
    \/ StopRecordingJoined /\ UNCHANGED shellVars
    \/ RecOpen /\ UNCHANGED shellVars
    \/ RecTest /\ UNCHANGED shellVars
    \/ RecChunk /\ UNCHANGED shellVars

WrapperSpec == WrapperInit /\ [][WrapperNext]_vars

\* ------------------------------------------- iOS: AudioModule.swift
\* Documents holds the recordings recording_<t>.pcm, named by t as on
\* Android, and temp_playback.wav.  A file is [exists, data]; data is a
\* sequence of bytes.
TempWav == MaxClock + 1

\* What the recorder appends to its file: a block of samples, as long as
\* a recording gets.
Block == [i \in 1..MaxPcm |-> i % 256]

\* A file that is not there; a file of these bytes.
NoFile == [exists |-> FALSE, data |-> <<>>]
FileOf(data) == [exists |-> TRUE, data |-> data]

\* audioRecorder, audioPlayer: nil.
NoRecorder == [live |-> FALSE, url |-> NullPath, recording |-> FALSE]
NoPlayer == [live |-> FALSE, playing |-> FALSE]

\* The module after init, with an empty Documents directory.  pending:
\* calls of startRecording waiting in requestRecordPermission.
IosInit ==
    /\ AndroidInit
    /\ ios = [audioRecorder |-> NoRecorder, audioPlayer |-> NoPlayer,
              recordingUrl |-> NullPath, pending |-> 0,
              files |-> [n \in FileNames |-> NoFile]]
    /\ wrapper = Off
    /\ ui = Off
    /\ bridge = Off

\* A step of the iOS module: nothing of the Android controller changes.
IosOnly ==
    UNCHANGED <<dir, inodes, captureVars, playbackVars, ctl, sessionLive, hist,
                wrapper, ui, bridge>>

\* generateRecordingURL(): recording_<timestamp>.pcm
generateRecordingURL == clock

\* startRecording, up to requestRecordPermission.  sessionOk: setCategory
\* and setActive did not throw.
IosStartRecording(sessionOk) ==
    /\ IosOnly
    /\ UNCHANGED clock
    /\ IF sessionOk THEN
            /\ ios.pending < MaxPending
            /\ ios' = [ios EXCEPT !.pending = @ + 1]
            /\ result' = NoResult
       ELSE
            /\ UNCHANGED ios
            /\ result' = Settled("startRecording", "session_error", <<>>)

\* startRecording: the callback of requestRecordPermission.  recorderOk:
\* the AVAudioRecorder initialiser did not throw; started: record()
\* returned true.  The new recorder takes the place of the one there was;
\* prepareToRecord() creates the file, or overwrites the one at the URL.
IosPermissionReply(allowed, recorderOk, started) ==
    /\ ios.pending > 0
    /\ IosOnly
    /\ UNCHANGED clock
    /\ IF ~allowed THEN
            /\ ios' = [ios EXCEPT !.pending = @ - 1]
            /\ result' = Settled("startRecording", "permission_denied", <<>>)
       ELSE IF ~recorderOk THEN
            /\ ios' = [ios EXCEPT !.pending = @ - 1,
                                  !.recordingUrl = generateRecordingURL]
            /\ result' = Settled("startRecording", "record_error", <<>>)
       ELSE
            /\ ios' = [ios EXCEPT
                          !.pending = @ - 1,
                          !.recordingUrl = generateRecordingURL,
                          !.audioRecorder = [live |-> TRUE,
                                             url |-> generateRecordingURL,
                                             recording |-> started],
                          !.files[generateRecordingURL] = FileOf(<<>>)]
            /\ result' = Settled("startRecording", "resolved",
                                 <<generateRecordingURL>>)

\* The running recorder appends a block of samples to its file.
IosRecord ==
    /\ ios.audioRecorder.recording
    /\ Len(ios.files[ios.audioRecorder.url].data) + Len(Block) <= MaxPcm
    /\ ios' = [ios EXCEPT !.files[ios.audioRecorder.url].data = @ \o Block]
    /\ result' = NoResult
    /\ IosOnly
    /\ UNCHANGED clock

\* stopRecording
IosStopRecording ==
    /\ IosOnly
    /\ UNCHANGED clock
    /\ IF ios.audioRecorder.live /\ ios.audioRecorder.recording THEN
            /\ ios' = [ios EXCEPT !.audioRecorder.recording = FALSE]
            /\ result' = Settled("stopRecording", "resolved",
                                 <<ios.audioRecorder.url>>)
       ELSE
            /\ UNCHANGED ios
            /\ result' = Settled("stopRecording", "not_recording", <<>>)

\* getRecordings: the filter pathExtension == "pcm" &&
\* lastPathComponent.starts(with: "recording_").
IosIsRecordingName(name) == name \in Stamps

\* getRecordings: what the call resolves with.
IosGetRecordings ==
    SortedDescending({n \in FileNames : ios.files[n].exists /\ IosIsRecordingName(n)})

\* UInt16.littleEndianData, UInt32.littleEndianData: the value in `size`
\* bytes, the least significant first.
BigEndianData(n, size) == [i \in 1..size |-> (n \div (256 ^ (size - i))) % 256]
littleEndianData(n, size) == [i \in 1..size |-> (n \div (256 ^ (i - 1))) % 256]

\* "RIFF", "WAVE", "fmt ", "data" in ASCII.
Ascii(tag) ==
    CASE tag = "RIFF" -> <<82, 73, 70, 70>>
      [] tag = "WAVE" -> <<87, 65, 86, 69>>
      [] tag = "fmt " -> <<102, 109, 116, 32>>
      [] tag = "data" -> <<100, 97, 116, 97>>

\* UInt32(n), and arithmetic in UInt32: Swift traps when the value does not
\* fit, which takes data of 4 GiB; below that the value is n.
UInt32(n) == n

\* PCMToWAV(pcmData:)
PCMToWAV(pcmData) ==
    LET sampleRate == 44100
        numChannels == 1
        bitsPerSample == 16
        byteRate == UInt32(sampleRate * UInt32(numChannels) * UInt32(bitsPerSample \div 8))
        blockAlign == ((numChannels * bitsPerSample) % (2 ^ 16)) \div 8
        wavHeaderSize == 44
        pcmDataSize == UInt32(Len(pcmData))
        wavDataSize == UInt32(pcmDataSize + UInt32(wavHeaderSize))
        header == Ascii("RIFF")
                  \o littleEndianData(UInt32(wavDataSize - 8), 4)
                  \o Ascii("WAVE")
                  \o Ascii("fmt ")
                  \o littleEndianData(UInt32(16), 4)
                  \o littleEndianData(1, 2)
                  \o littleEndianData(numChannels, 2)
                  \o littleEndianData(sampleRate, 4)
                  \o littleEndianData(byteRate, 4)
                  \o littleEndianData(blockAlign, 2)
                  \o littleEndianData(bitsPerSample, 2)
                  \o Ascii("data")
                  \o littleEndianData(pcmDataSize, 4)
    IN  header \o pcmData

\* playRecording(fileName).  written: wavData.write(to:) did not throw;
\* playerOk: the AVAudioPlayer initialiser did not throw.  The new player
\* takes the place of the one there was.
IosPlayRecording(fileName, written, playerOk) ==
    /\ Len(ios.files[fileName].data) <= MaxPcm
    /\ IosOnly
    /\ UNCHANGED clock
    /\ IF ~ios.files[fileName].exists \/ ~written THEN
            /\ UNCHANGED ios
            /\ result' = Settled("playRecording", "playback_error", <<>>)
       ELSE IF ~playerOk THEN
            /\ ios' = [ios EXCEPT !.files[TempWav] =
                                      FileOf(PCMToWAV(ios.files[fileName].data))]
            /\ result' = Settled("playRecording", "playback_error", <<>>)
       ELSE
            /\ ios' = [ios EXCEPT !.files[TempWav] =
                                      FileOf(PCMToWAV(ios.files[fileName].data)),
                                  !.audioPlayer = [live |-> TRUE, playing |-> TRUE]]
            /\ result' = Settled("playRecording", "resolved", <<>>)

\* The player reaches the end of its sound.
IosPlayerFinished ==
    /\ ios.audioPlayer.playing
    /\ ios' = [ios EXCEPT !.audioPlayer.playing = FALSE]
    /\ result' = NoResult
    /\ IosOnly
    /\ UNCHANGED clock

\* stopPlayback
IosStopPlayback ==
    /\ IosOnly
    /\ UNCHANGED clock
    /\ IF ios.audioPlayer.live /\ ios.audioPlayer.playing THEN
            /\ ios' = [ios EXCEPT !.audioPlayer.playing = FALSE]
            /\ result' = Settled("stopPlayback", "stopped:true", <<>>)
       ELSE
            /\ UNCHANGED ios
            /\ result' = Settled("stopPlayback", "stopped:false", <<>>)

IosNext ==
    \/ Tick /\ UNCHANGED shellVars
    \/ \E sessionOk \in BOOLEAN : IosStartRecording(sessionOk)
    \/ \E allowed \in BOOLEAN :
       \E recorderOk \in Asked(allowed) :
       \E started \in Asked(allowed /\ recorderOk) :
           IosPermissionReply(allowed, recorderOk, started)
    \/ IosRecord
    \/ IosStopRecording
    \/ \E fileName \in FileNames :
       \E written \in Asked(ios.files[fileName].exists) :
       \E playerOk \in Asked(ios.files[fileName].exists /\ written) :
           IosPlayRecording(fileName, written, playerOk)
    \/ IosPlayerFinished
    \/ IosStopPlayback

IosSpec == IosInit /\ [][IosNext]_vars

\* --------------------------------------------- RecordScreen: playback
\* The screen with its list of recordings: the play/pause and delete
\* buttons of the items, the effect that polls the playback status, and
\* the audioUtils.js wrappers the handlers call.  JavaScript runs one
\* piece of a handler at a time, up to its next await; a native call goes
\* to the native-modules thread over the bridge and its reply comes back in
\* order.  A handler waiting for a call is the entry of that call in
\* bridge.calls or bridge.replies:
\*   kind   "fetch" (fetchRecordings), "toggle" (handlePlayPause),
\*          "delete" (handleDelete), "poll" (the interval callback)
\*   stage  the native call awaited: "getRecordings", "stopPlayback",
\*          "playRecording", "deleteRecording", "getPlaybackStatus"
\*   file   the handler's fileName;  seen: playingFile as the handler sees it
\*   res    what the call settled with;  ended: (history) the playback
\*          thread had played its file to the end when the call ran
\* bridge.session is (history) the file of the playback session the
\* controller started last.
Call(kind, stage, file, seen) ==
    [kind |-> kind, stage |-> stage, file |-> file, seen |-> seen,
     res |-> NoResult, ended |-> FALSE]

\* Sizes of the recordings the screen starts with (0 - 1: no such file):
\* empty, or one buffer long.
StoredSizes == [Stamps -> {0 - 1, 0, BUFFER_SIZE}]

\* The screen is mounted: fetchRecordings() has set isLoading and awaits
\* getRecordings().
Mounted ==
    /\ ui = [isRecording |-> FALSE, recordings |-> <<>>, playingFile |-> NullPath,
             playbackProgress |-> <<0, 0>>, polling |-> FALSE, isLoading |-> TRUE,
             statusMessage |-> "Press the button to start recording"]
    /\ bridge = [calls |-> <<Call("fetch", "getRecordings", NullPath, NullPath)>>,
                 replies |-> <<>>, session |-> NullPath]
    /\ wrapper = Off
    /\ ios = Off

\* The screen is mounted over a directory of finished recordings.
UiInit ==
    /\ clock = MaxClock
    /\ \E sizes \in StoredSizes :
          /\ dir = [n \in FileNames |->
                      IF n \in Stamps /\ sizes[n] >= 0 THEN InodeOf(n) ELSE NoInode]
          /\ inodes = [i \in Inodes |->
                         IF i - 1 \in Stamps /\ sizes[i - 1] >= 0 THEN sizes[i - 1]
                         ELSE 0]
          /\ Used(inodes) <= MaxStorage
    /\ ControllerInit
    /\ Mounted

\* A step of JavaScript: the controller is not touched.
UiOnly ==
    /\ result' = NoResult
    /\ UNCHANGED <<fileVars, captureVars, playbackVars, ctl, sessionLive, hist,
                   wrapper, ios>>

\* JavaScript issues a native call.
Issue(b, call) == [b EXCEPT !.calls = Append(@, call)]

\* Handlers (not polls) that are waiting for a call.
Handlers(b) ==
    Cardinality({k \in 1..Len(b.calls) : b.calls[k].kind # "poll"})
    + Cardinality({k \in 1..Len(b.replies) : b.replies[k].kind # "poll"})
Polls(b) ==
    Cardinality({k \in 1..Len(b.calls) : b.calls[k].kind = "poll"})
    + Cardinality({k \in 1..Len(b.replies) : b.replies[k].kind = "poll"})

\* setPlayingFile(v) and the effect on [playingFile] that follows the
\* render: a file starts the polling interval (after clearing the one
\* there was), null resets the progress and clears it.
SetPlayingFile(u, v) ==
    IF v = u.playingFile THEN u
    ELSE IF v = NullPath
         THEN [u EXCEPT !.playingFile = v, !.polling = FALSE,
                        !.playbackProgress = <<0, 0>>]
         ELSE [u EXCEPT !.playingFile = v, !.polling = TRUE]

\* An item of the list is on the screen.
Shown(u, fileName) ==
    ~u.isLoading /\ \E k \in 1..Len(u.recordings) : u.recordings[k] = fileName

\* handlePlayPause(fileName), up to await stopPlayback().
UiPressPlay(fileName) ==
    /\ Shown(ui, fileName)
    /\ Handlers(bridge) < MaxTasks
    /\ bridge' = Issue(bridge, Call("toggle", "stopPlayback", fileName, ui.playingFile))
    /\ UNCHANGED ui
    /\ UiOnly

\* handleDelete(fileName), up to await deleteRecording(fileName).
UiPressDelete(fileName) ==
    /\ Shown(ui, fileName)
    /\ Handlers(bridge) < MaxTasks
    /\ bridge' = Issue(bridge, Call("delete", "deleteRecording", fileName, ui.playingFile))
    /\ UNCHANGED ui
    /\ UiOnly

\* The interval fires: the callback, up to await getPlaybackStatus().
UiPollTick ==
    /\ ui.polling
    /\ Polls(bridge) < MaxPolls
    /\ bridge' = Issue(bridge, Call("poll", "getPlaybackStatus", NullPath, NullPath))
    /\ UNCHANGED ui
    /\ UiOnly

\* The interval callback: if (status.duration > 0 && status.position >=
\* status.duration).  status is <<position, duration>> times bytesPerSecond.
PlaybackFinished(status) == status[2] > 0 /\ status[1] >= status[2]

\* A wrapper's catch block runs: the native call was rejected.
Caught(res) ==
    res.code \notin {"resolved", "stopped:true", "stopped:false", "true", "false"}

\* The interval callback after getPlaybackStatus() returned (the wrapper
\* returns {0, 0} when the call failed).
PollResumed(u, res) ==
    LET status == IF Caught(res) THEN <<0, 0>> ELSE <<res.val[1], res.val[2]>>
        shown == [u EXCEPT !.playbackProgress = status]
    IN  IF PlaybackFinished(status)
        THEN [SetPlayingFile(shown, NullPath)
                  EXCEPT !.playbackProgress = <<0, 0>>, !.polling = FALSE]
        ELSE shown

\* handleDelete: if (playingFile === fileName)
DeletedWasPlayingNever(e) == FALSE
DeletedWasPlaying(e) == e.seen = e.file

\* prev.filter((f) => f !== fileName)
Filter(list, fileName) == SelectSeq(list, LAMBDA f : f # fileName)

\* JavaScript takes the next reply and runs the handler that awaited it up
\* to its next await, or to its end.  The wrappers turn a failed
\* getRecordings into [], a failed deleteRecording into false, and swallow
\* a failed playRecording or stopPlayback.
UiResume ==
    /\ bridge.replies # <<>>
    /\ Head(bridge.replies).kind # "record"
    /\ UiOnly
    /\ LET e == Head(bridge.replies)
           rest == [bridge EXCEPT !.replies = Tail(@)]
       IN  CASE e.kind = "fetch" ->
                  /\ ui' = [ui EXCEPT !.recordings = IF Caught(e.res) THEN <<>>
                                                     ELSE e.res.val,
                                      !.isLoading = FALSE]
                  /\ bridge' = rest
             [] e.kind = "poll" ->
                  /\ ui' = PollResumed(ui, e.res)
                  /\ bridge' = rest
             [] e.kind = "toggle" /\ e.stage = "stopPlayback" /\ e.seen = e.file ->
                  /\ ui' = SetPlayingFile(ui, NullPath)
                  /\ bridge' = rest
             [] e.kind = "toggle" /\ e.stage = "stopPlayback" /\ e.seen # e.file ->
                  /\ ui' = ui
                  /\ bridge' = Issue(rest, Call("toggle", "playRecording", e.file, e.seen))
             [] e.kind = "toggle" /\ e.stage = "playRecording" ->
                  /\ ui' = SetPlayingFile(ui, e.file)
                  /\ bridge' = rest
             [] e.kind = "delete" /\ e.stage = "deleteRecording" ->
                  IF e.res.code # "true" THEN
                       /\ ui' = [ui EXCEPT !.statusMessage = "Could not delete recording."]
                       /\ bridge' = rest
                  ELSE /\ ui' = [ui EXCEPT !.statusMessage = "Recording deleted.",
                                           !.recordings = Filter(@, e.file)]
                       /\ bridge' = IF DeletedWasPlaying(e)
                                    THEN Issue(rest, Call("delete", "stopPlayback",
                                                          e.file, e.seen))
                                    ELSE rest
             [] e.kind = "delete" /\ e.stage = "stopPlayback" ->
                  /\ ui' = SetPlayingFile(ui, NullPath)
                  /\ bridge' = rest

\* The native-modules thread has run the call at the head of the queue:
\* its reply goes back.
Replied(b, res) ==
    [b EXCEPT !.calls = Tail(@),
              !.replies = Append(@, [Head(b.calls) EXCEPT
                                         !.res = res,
                                         !.ended = play.pc = "done" /\ play.exit = "eof"])]

\* The native-modules thread takes the next call when it is free.
NextCall(stage) ==
    /\ bridge.calls # <<>>
    /\ Head(bridge.calls).stage = stage
    /\ UNCHANGED <<wrapper, ios, ui>>

\* AudioModule.getRecordings()
UiNativeGetRecordings ==
    /\ NextCall("getRecordings")
    /\ ctl = "idle"
    /\ result' = Settled("getRecordings", "resolved", getRecordings)
    /\ bridge' = Replied(bridge, result')
    /\ UNCHANGED <<fileVars, captureVars, playbackVars, ctl, sessionLive, hist>>

\* AudioModule.getPlaybackStatus()
UiNativeGetPlaybackStatus ==
    /\ NextCall("getPlaybackStatus")
    /\ GetPlaybackStatus
    /\ bridge' = Replied(bridge, result')

\* AudioModule.playRecording(fileName)
UiNativePlayRecording ==
    /\ NextCall("playRecording")
    /\ \E trackOk \in Asked(~PlaybackBusy /\ FileExists(Head(bridge.calls).file)) :
           PlayRecordingWith(Head(bridge.calls).file, trackOk)
    /\ bridge' = [Replied(bridge, result') EXCEPT
                      !.session = IF result'.code = "resolved"
                                  THEN Head(bridge.calls).file ELSE @]

\* AudioModule.deleteRecording(fileName)
UiNativeDeleteRecording ==
    /\ NextCall("deleteRecording")
    /\ DeleteRecordingOf(Head(bridge.calls).file)
    /\ bridge' = Replied(bridge, result')

\* AudioModule.stopPlayback(): it answers at once when nothing plays;
\* otherwise the native-modules thread waits in join().
UiNativeStopPlayback ==
    /\ NextCall("stopPlayback")
    /\ StopPlayback
    /\ bridge' = IF ctl' = "idle" THEN Replied(bridge, result') ELSE bridge

\* AudioModule.stopPlayback(), from the return of join() on.
UiNativeStopPlaybackJoined ==
    /\ NextCall("stopPlayback")
    /\ StopPlaybackJoined
    /\ bridge' = Replied(bridge, result')

UiNext ==
    \/ \E fileName \in Stamps : UiPressPlay(fileName)
    \/ \E fileName \in Stamps : UiPressDelete(fileName)
    \/ UiPollTick
    \/ UiResume
    \/ UiNativeGetRecordings
    \/ UiNativeGetPlaybackStatus
    \/ UiNativePlayRecording
    \/ UiNativeDeleteRecording
    \/ UiNativeStopPlayback
    \/ UiNativeStopPlaybackJoined
    \/ PlayTest /\ UNCHANGED shellVars
    \/ PlayWrite /\ UNCHANGED shellVars
    \/ PlayFinish /\ UNCHANGED shellVars

UiSpec == UiInit /\ [][UiNext]_vars

\* --------------------------------------------- RecordScreen: recording
\* The record button: handleRecordPress and the startRecording and
\* stopRecording wrappers of audioUtils.js, over the capture half of the
\* controller.  A handler of kind "record" awaits, in turn,
\*   "checkAudioPermission"        AudioModule.checkAudioPermission and
\*                                 PermissionsAndroid.request
\*   "checkMicrophoneAvailable"    AudioModule.checkMicrophoneAvailable
\*   "checkNotificationPermission" PermissionsAndroid.request
\*   "checkNotificationSupport"    AudioModule.checkNotificationSupport
\*   "startRecording"              AudioModule.startRecording
\* when the screen's isRecording was false at the press, and
\*   "stopRecording"           AudioModule.stopRecording
\* when it was true.
RecordCall(stage) == Call("record", stage, NullPath, NullPath)

\* The screen is mounted over a new controller and an empty directory.
UiRecInit ==
    /\ AndroidInit
    /\ Mounted

\* handleRecordPress(), up to its first await.
UiPressRecord ==
    /\ Handlers(bridge) < MaxTasks
    /\ bridge' = Issue(bridge, IF ui.isRecording
                               THEN RecordCall("stopRecording")
                               ELSE RecordCall("checkAudioPermission"))
    /\ UNCHANGED ui
    /\ UiOnly

\* handleRecordPress: either catch block.
RecordFailed(u) == [u EXCEPT !.isRecording = FALSE, !.statusMessage = "Error"]

\* The checks of the startRecording wrapper: a check that says no makes
\* the wrapper throw.
CheckStages ==
    {"checkAudioPermission", "checkMicrophoneAvailable",
     "checkNotificationPermission", "checkNotificationSupport"}
StageAfter(stage) ==
    CASE stage = "checkAudioPermission" -> "checkMicrophoneAvailable"
      [] stage = "checkMicrophoneAvailable" -> "checkNotificationPermission"
      [] stage = "checkNotificationPermission" -> "checkNotificationSupport"
      [] stage = "checkNotificationSupport" -> "startRecording"
\* The two notification checks only write a warning to the console.
CheckBlocks(e) ==
    /\ e.stage \in {"checkAudioPermission", "checkMicrophoneAvailable"}
    /\ e.res.code # "true"

\* JavaScript takes the next reply and runs handleRecordPress up to its
\* next await, or to its end.
UiRecordResume ==
    /\ bridge.replies # <<>>
    /\ Head(bridge.replies).kind = "record"
    /\ UiOnly
    /\ LET e == Head(bridge.replies)
           rest == [bridge EXCEPT !.replies = Tail(@)]
       IN  CASE e.stage \in CheckStages /\ CheckBlocks(e) ->
                  /\ ui' = RecordFailed(ui)
                  /\ bridge' = rest
             [] e.stage \in CheckStages /\ ~CheckBlocks(e) ->
                  /\ ui' = ui
                  /\ bridge' = Issue(rest, RecordCall(StageAfter(e.stage)))
             [] e.stage = "startRecording" /\ e.res.code = "resolved" ->
                  /\ ui' = [ui EXCEPT !.isRecording = TRUE, !.statusMessage = ""]
                  /\ bridge' = rest
             [] e.stage = "stopRecording" /\ e.res.code = "resolved" ->
                  \* fetchRecordings() is called and not awaited
                  /\ ui' = [ui EXCEPT !.isRecording = FALSE,
                                      !.statusMessage = "Recording saved!",
                                      !.isLoading = TRUE]
                  /\ bridge' = Issue(rest, Call("fetch", "getRecordings",
                                                NullPath, NullPath))
             [] e.stage \in {"startRecording", "stopRecording"}
                /\ e.res.code # "resolved" ->
                  /\ ui' = RecordFailed(ui)
                  /\ bridge' = rest

\* The checks, on the native side: they answer yes or no and change
\* nothing.
UiNativeCheck ==
    /\ bridge.calls # <<>>
    /\ Head(bridge.calls).stage \in CheckStages
    /\ ctl = "idle"
    /\ \E answer \in {"true", "false"} :
           result' = Settled(Head(bridge.calls).stage, answer, <<>>)
    /\ bridge' = Replied(bridge, result')
    /\ UNCHANGED <<fileVars, captureVars, playbackVars, ctl, sessionLive, hist,
                   wrapper, ios, ui>>

\* AudioModule.startRecording()
UiNativeStartRecording ==
    /\ NextCall("startRecording")
    /\ StartRecording
    /\ bridge' = Replied(bridge, result')

\* AudioModule.stopRecording(): it answers at once when nothing records;
\* otherwise the native-modules thread waits in join().
UiNativeStopRecording ==
    /\ NextCall("stopRecording")
    /\ StopRecording
    /\ bridge' = IF ctl' = "idle" THEN Replied(bridge, result') ELSE bridge

\* AudioModule.stopRecording(), from the return of join() on.
UiNativeStopRecordingJoined ==
    /\ NextCall("stopRecording")
    /\ StopRecordingJoined
    /\ bridge' = Replied(bridge, result')

UiRecNext ==
    \/ UiPressRecord
    \/ UiRecordResume
    \/ UiResume
    \/ UiNativeCheck
    \/ UiNativeStartRecording
    \/ UiNativeStopRecording
    \/ UiNativeStopRecordingJoined
    \/ UiNativeGetRecordings
    \/ Tick /\ UNCHANGED shellVars
    \/ RecOpen /\ UNCHANGED shellVars
    \/ RecTest /\ UNCHANGED shellVars
    \/ RecChunk /\ UNCHANGED shellVars

UiRecSpec == UiRecInit /\ [][UiRecNext]_vars

\* ------------------------------------------------------------ properties
Rejected(op, code) == Settled(op, code, <<>>)

\* C1: a startRecording issued while capture is Active is rejected
\* ("Already recording") and leaves the running session untouched: the run
\* flag, the device handle, filePath, the recording thread and the files
\* are as before the call.
C1_StartWhileActiveRejected ==
    [][(isRecording /\ StartRecording) =>
          /\ result' = Rejected("startRecording", "record_error:already")
          /\ UNCHANGED <<captureVars, fileVars, ctl>>]_vars

\* A recording thread is in its loop, has written to its file, and a
\* second startRecording has just been rejected.
C1_Witness ==
    /\ result = Rejected("startRecording", "record_error:already")
    /\ isRecording
    /\ rec.pc = "chunk"
    /\ inodes[rec.ino] > 0

\* C2: at every call boundary capture is Active exactly if a startRecording
\* resolved and no stopRecording was accepted since; a startRecording that
\* is rejected for any reason but "already recording" leaves capture Idle.
C2_ActiveBetweenStartAndStop ==
    /\ ctl = "idle" => (isRecording <=> sessionLive)
    /\ (result.op = "startRecording"
            /\ result.code \notin {"resolved", "record_error:already"})
        => ~isRecording

\* The device refused to start after an earlier session had ended.
C2_Witness ==
    /\ result = Rejected("startRecording", "record_error:start")
    /\ ~isRecording
    /\ rec.pc = "done"

\* C3: stopRecording called while capture is Idle is rejected with
\* not_recording and changes nothing.
C3_StopWhileIdleRejected ==
    [][(ctl = "idle" /\ ~isRecording /\ StopRecording) =>
          /\ result' = Rejected("stopRecording", "not_recording")
          /\ UNCHANGED <<captureVars, playbackVars, fileVars, ctl, sessionLive>>]_vars

\* A stopRecording was rejected after a session had been recorded.
C3_Witness ==
    /\ result = Rejected("stopRecording", "not_recording")
    /\ ~isRecording
    /\ filePath # NullPath
    /\ audioMode = "NORMAL"

\* C4: a playRecording issued while playback is Active is rejected
\* ("Already playing"), nothing is left pending, and the running playback
\* session is untouched.
C4_PlayWhileActiveRejected ==
    [][(isPlaying /\ PlayRecording) =>
          /\ result' = Rejected("playRecording", "playback_error:already")
          /\ UNCHANGED <<playbackVars, captureVars, fileVars, ctl>>]_vars

\* The playback thread is between reading a chunk and counting it, and a
\* second playRecording has just been rejected.
C4_Witness ==
    /\ result = Rejected("playRecording", "playback_error:already")
    /\ isPlaying
    /\ play.pc = "write"

\* C5: playRecording of a name that has no file, issued with playback
\* Idle, fails as file-not-found and leaves playback Idle: the run flag is
\* down, no thread is started and no device handle is held.
C5_PlayMissingFileLeavesIdle ==
    [][\A fileName \in FileNames :
          (~isPlaying /\ ~FileExists(fileName) /\ PlayRecordingWith(fileName, TRUE)) =>
              /\ result' = Rejected("playRecording", "playback_error:not_found")
              /\ ~isPlaying'
              /\ play' = play
              /\ play.pc \in {"none", "done"}
              /\ audioTrack' = "null"]_vars

\* A playRecording has just failed for a missing file, after an earlier
\* playback session had run.
C5_Witness ==
    /\ result = Rejected("playRecording", "playback_error:not_found")
    /\ ~isPlaying
    /\ play.pc = "done"
    /\ audioTrack = "null"

\* C6: when stopRecording (stopPlayback) resolves successfully, the thread
\* of that session has terminated, its stream is closed and its device
\* handle is cleared; and a thread is only ever started when the previous
\* thread of its kind has terminated.
C6_StopIsSynchronous ==
    /\ [](/\ (result.op = "stopRecording" /\ result.code = "resolved") =>
                (rec.pc = "done" /\ rec.ino = NoInode /\ audioRecord = "null")
          /\ (result.op = "stopPlayback" /\ result.code = "stopped:true") =>
                (play.pc = "done" /\ play.ino = NoInode /\ audioTrack = "null"))
    /\ [][/\ (result'.op = "startRecording" /\ result'.code = "resolved") =>
                rec.pc \in {"none", "done"}
          /\ (result'.op = "playRecording" /\ result'.code = "resolved") =>
                play.pc \in {"none", "done"}]_vars

\* stopRecording has just resolved for a session that wrote to its file.
C6_Witness ==
    /\ result.op = "stopRecording"
    /\ result.code = "resolved"
    /\ FileExists(filePath)
    /\ inodes[dir[filePath]] > 0

\* C7: a stopRecording that was accepted and then fails with stop_error
\* leaves capture Idle, and a startRecording issued with the run flag down
\* is never answered "already recording".
C7_FailedStopLeavesIdle ==
    /\ []((result.op = "stopRecording" /\ result.code = "stop_error") => ~isRecording)
    /\ [][(~isRecording /\ StartRecording) =>
             result' # Rejected("startRecording", "record_error:already")]_vars

\* stopRecording has just failed: the thread was joined, the device handle
\* is still held.
C7_Witness ==
    /\ result = Rejected("stopRecording", "stop_error")
    /\ rec.pc = "done"
    /\ audioRecord = "record"
    /\ ~isRecording

\* C8: while playback is Active, the progress getPlaybackStatus reports
\* satisfies 0 <= position <= duration.
C8_ProgressWithinDuration ==
    (isPlaying /\ result.op = "getPlaybackStatus") =>
        (0 <= result.val[1] /\ result.val[1] <= result.val[2])

\* How far the bytes-written counter is from the total.
Distance == IF playbackBytesWritten <= playbackTotalBytes
            THEN playbackTotalBytes - playbackBytesWritten
            ELSE playbackBytesWritten - playbackTotalBytes

\* C9: when the playback thread leaves its loop at end of file, the
\* bytes-written counter has reached the total, within one buffer.
C9_PositionReachesDuration ==
    (play.pc = "finish" /\ play.exit = "eof") => Distance <= minBufferSize

\* C10: a playback session ends by itself: the thread terminates, having
\* cleared the device handle, closed the file and lowered the run flag, so
\* that the next playRecording is not refused.
C10_PlaybackSelfTerminates ==
    isPlaying ~> (/\ play.pc \in {"done"}
                  /\ ~isPlaying
                  /\ audioTrack = "null"
                  /\ play.ino = NoInode)

\* A session has ended at end of file without any stop.
C10_Witness ==
    /\ play.pc = "done"
    /\ play.exit = "eof"
    /\ ~isPlaying
    /\ audioTrack = "null"
    /\ play.ino = NoInode
    /\ playbackTotalBytes > 0

\* C11: once a playback session has ended, getPlaybackStatus reports no
\* session (position 0 of duration 0) and not the progress of the session
\* that ended.
C11_EndedSessionReportedAbsent ==
    (result.op = "getPlaybackStatus" /\ play.pc = "done") =>
        (result.val[1] = 0 /\ result.val[2] = 0)

\* C12: at most one recording thread and at most one playback thread are
\* alive at any moment.
C12_OneThreadPerKind ==
    /\ hist.recs <= 1
    /\ hist.plays <= 1

\* A recording thread and a playback thread are both in their loops.
C12_Witness ==
    /\ hist.recs = 1
    /\ hist.plays = 1
    /\ rec.pc = "chunk"
    /\ play.pc = "write"
    /\ clock > 0

\* C13: startRecording and stopRecording leave the playback fields alone,
\* playRecording and stopPlayback leave the capture fields alone, and each
\* kind of session is started and stopped while the other is Active.
C13_SessionsIndependent ==
    [][/\ (StartRecording \/ StopRecording \/ StopRecordingJoined) =>
              UNCHANGED <<isPlaying, audioTrack, playbackBytesWritten,
                          playbackTotalBytes>>
       /\ (PlayRecording \/ StopPlayback \/ StopPlaybackJoined) =>
              UNCHANGED <<isRecording, audioRecord, filePath>>
       /\ \A svc \in BOOLEAN :
              (isPlaying /\ ~isRecording
                  /\ StartRecordingWith(TRUE, TRUE, TRUE, TRUE, svc)) =>
                  (isRecording' /\ result'.code = "resolved")
       /\ (isPlaying /\ isRecording /\ StopRecording) => ctl' = "joinRec"
       /\ \A fileName \in FileNames :
              (isRecording /\ ~isPlaying /\ FileExists(fileName)
                  /\ PlayRecordingWith(fileName, TRUE)) =>
                  (isPlaying' /\ result'.code = "resolved")
       /\ (isRecording /\ isPlaying /\ StopPlayback) => ctl' = "joinPlay"]_vars

\* Playback has just been started while capture was Active.
C13_Witness ==
    /\ result.op = "playRecording"
    /\ result.code = "resolved"
    /\ isRecording
    /\ isPlaying
    /\ rec.pc = "chunk"

\* C14: an error of the read or of the write inside the capture loop does
\* not end the recording thread: while the run flag is up, every pass
\* through the loop body returns to the loop test.
C14_LoopErrorDoesNotEndCapture ==
    [][(isRecording /\ RecChunk) => rec'.pc = "test"]_vars

\* C15: capture is never Active without a live recording thread: when the
\* thread ends on an I/O error the session is taken down with it.
C15_ActiveHasLiveThread ==
    isRecording => rec.pc \in {"open", "test", "chunk"}

\* C16: when the foreground service cannot be started, startRecording
\* still resolves with capture Active and the thread started; when it
\* cannot be stopped, stopRecording still resolves with capture Idle.
C16_ServiceFailureKeepsSession ==
    [][/\ (~isRecording /\ StartRecordingWith(TRUE, TRUE, TRUE, TRUE, FALSE)) =>
              /\ result'.code = "resolved"
              /\ isRecording'
              /\ rec'.pc = "open"
              /\ hist'.recs = hist.recs + 1
       /\ (rec.pc = "done" /\ StopRecordingJoinedWith(TRUE, FALSE)) =>
              /\ result'.code = "resolved"
              /\ ~isRecording'
              /\ audioRecord' = "null"]_vars

\* startRecording has just resolved although the service was not started.
C16_Witness ==
    /\ result.op = "startRecording"
    /\ result.code = "resolved"
    /\ ~serviceRequested
    /\ isRecording
    /\ rec.pc = "open"

\* C17: a startRecording issued with capture Idle and without the
\* permission, or with the trial acquisition failing, is rejected, leaves
\* capture Idle, starts no thread and does not start the service.
C17_StartPreconditionsEnforced ==
    [][\A granted, probe \in BOOLEAN :
          (~isRecording /\ ~(granted /\ probe)
              /\ StartRecordingWith(granted, probe, TRUE, TRUE, TRUE)) =>
              /\ result'.code \in {"permission_denied", "record_error:unavailable"}
              /\ ~isRecording'
              /\ rec' = rec
              /\ hist'.recs = hist.recs
              /\ serviceRequested' = serviceRequested]_vars

\* A startRecording has just been rejected because the microphone could
\* not be acquired; nothing was started.
C17_Witness ==
    /\ result = Rejected("startRecording", "record_error:unavailable")
    /\ ~isRecording
    /\ ~serviceRequested
    /\ hist.recs = 0
    /\ audioRecord = "null"

C19_RoundTripDuration ==
    /\ [][(~isPlaying /\ rec.pc = "done" /\ hist.made /\ hist.buffers # Mixed
              /\ PlayRecordingWith(filePath, TRUE)) =>
              playbackTotalBytes' = hist.buffers * BUFFER_SIZE]_vars
    /\ [](result.op = "getPlaybackStatus" =>
              (result.val[2] = playbackTotalBytes /\ result.val[3] = 44100 * 2))

\* The file of a finished session of one whole buffer is being played and
\* its duration has been reported.
C19_Witness ==
    /\ result.op = "getPlaybackStatus"
    /\ result.val[2] = BUFFER_SIZE
    /\ isPlaying
    /\ rec.pc = "done"
    /\ hist.made
    /\ hist.buffers = 1
    /\ play.ino = dir[filePath]

\* A name is in a listing.
Listed(name, listing) == \E k \in 1..Len(listing) : listing[k] = name

\* C20: when stopRecording resolves for a session whose thread created its
\* file, the file has the timestamp name startRecording chose and
\* getRecordings lists it; when deleteRecording of a name resolves true,
\* getRecordings does not list the name any more.
C20_RecordedFileListedUntilDeleted ==
    /\ []((result.op = "stopRecording" /\ result.code = "resolved" /\ hist.made) =>
              /\ filePath \in Stamps
              /\ result.val = <<filePath>>
              /\ Listed(filePath, getRecordings))
    /\ [][\A fileName \in FileNames :
              (DeleteRecordingOf(fileName) /\ result'.code = "true") =>
                  (Listed(fileName, getRecordings) /\ ~Listed(fileName, getRecordings'))]_vars

\* stopRecording has just resolved for a session that recorded something.
C20_Witness ==
    /\ result.op = "stopRecording"
    /\ result.code = "resolved"
    /\ hist.made
    /\ FileExists(filePath)
    /\ inodes[dir[filePath]] = BUFFER_SIZE
    /\ clock > 0

\* C21: a recording is immutable once written.  While no capture stream
\* has the file of a name open (the session that produced it has stopped),
\* no step that leaves the name in the directory changes the size of its
\* file; in particular no later session writes to it.
C21_RecordingImmutable ==
    [][\A n \in Stamps :
          (FileExists(n) /\ rec.ino # dir[n] /\ dir'[n] # NoInode) =>
              inodes'[dir'[n]] = inodes[dir[n]]]_vars

\* promise.reject: the caller is told of a failure.
IsFailure(r) ==
    r.op # "none" /\
    r.code \notin {"resolved", "stopped:true", "stopped:false", "true", "false"}

\* C23 as stated: stopPlayback called while playback is Idle is rejected
\* with a failure and changes nothing of the playback session.
C23_StopPlaybackWhileIdleRejected ==
    [][(~isPlaying /\ StopPlayback) =>
          /\ IsFailure(result')
          /\ UNCHANGED <<playbackVars, ctl>>]_vars

\* C23 amended: stopPlayback called while playback is Idle resolves with
\* stopped = false and makes no transition: the run flag, the device
\* handle, the byte counters and the playback thread are as before, and so
\* are the capture session and the files.
C23_StopPlaybackWhileIdleNoTransition ==
    [][(~isPlaying /\ StopPlayback) =>
          /\ result' = Settled("stopPlayback", "stopped:false", <<>>)
          /\ UNCHANGED <<playbackVars, captureVars, fileVars, ctl>>]_vars

\* stopPlayback has just answered stopped = false after a session that
\* played a file to its end.
C23_Witness ==
    /\ result = Settled("stopPlayback", "stopped:false", <<>>)
    /\ ~isPlaying
    /\ play.pc = "done"
    /\ play.exit = "eof"
    /\ playbackTotalBytes > 0

\* A step of the native-modules thread (the control thread).
ControlStep ==
    \/ StartRecording
    \/ StopRecording
    \/ StopRecordingJoined
    \/ PlayRecording
    \/ StopPlayback
    \/ StopPlaybackJoined
    \/ GetPlaybackStatus
    \/ DeleteRecording

\* C24 as stated: the control thread never stops, releases or clears a
\* device handle and never writes the bytes-written counter; it only sets
\* and reads the run flags.
C24_OnlyThreadMutatesHandles ==
    [][ControlStep =>
          /\ audioRecord = "record" => audioRecord' = "record"
          /\ audioTrack = "track" => audioTrack' = "track"
          /\ playbackBytesWritten' = playbackBytesWritten]_vars

\* C24 amended: while the background thread of a session is running, the
\* control thread does not change the session's device handle, does not
\* open or close its file stream and does not write the bytes-written
\* counter: it creates the handle and resets the counter before it starts
\* the thread, and stops, releases and clears the handle only after it has
\* joined the thread.  (A step that changes one of them while the thread
\* runs is not a step of the control thread.)
C24_ControlMutatesOnlyWithoutThread ==
    [][/\ (/\ rec.pc \notin {"none", "done"}
           /\ \/ audioRecord' # audioRecord
              \/ (rec'.ino = NoInode) # (rec.ino = NoInode)) => ~ControlStep
       /\ (/\ play.pc \notin {"none", "done"}
           /\ \/ audioTrack' # audioTrack
              \/ playbackBytesWritten' # playbackBytesWritten
              \/ (play'.ino = NoInode) # (play.ino = NoInode)) => ~ControlStep]_vars

\* stopRecording has just released and cleared the capture handle, after
\* the recording thread it joined had written a buffer.
C24_Witness ==
    /\ result.op = "stopRecording"
    /\ result.code = "resolved"
    /\ audioRecord = "null"
    /\ rec.pc = "done"
    /\ hist.made
    /\ hist.buffers = 1

\* C25: after stopRecording has cleared the run flag the recording thread
\* writes at most one more buffer, leaves the loop at its next test of the
\* flag, and stopRecording returns.
C25_StopEndsLoopWithinOneChunk ==
    /\ [](hist.late <= 1)
    /\ [][(ctl = "joinRec" /\ RecTest) => rec'.pc = "done"]_vars
    /\ (ctl = "joinRec") ~> (ctl = "idle")

\* stopRecording waits in join(); the thread has written one buffer since
\* the flag was cleared and is about to test the flag.
C25_Witness ==
    /\ ctl = "joinRec"
    /\ ~isRecording
    /\ hist.late = 1
    /\ rec.pc = "test"
    /\ inodes[rec.ino] = BUFFER_SIZE

\* C27: the wrapper invokes the native start only after the audio
\* permission check and then the microphone check have both returned true:
\* the microphone is checked only with the permission, a step that starts
\* recording natively is the wrapper's call after both checks, and a call of
\* the wrapper in which either check returned false has thrown without
\* invoking the native start.
C27_NativeStartOnlyAfterChecks ==
    /\ [](wrapper.isMicrophoneAvailable # "unset" =>
              wrapper.hasAudioPermission = "true")
    /\ [](wrapper.started > 0 =>
              /\ wrapper.hasAudioPermission = "true"
              /\ wrapper.isMicrophoneAvailable = "true")
    /\ []((wrapper.hasAudioPermission = "false"
             \/ wrapper.isMicrophoneAvailable = "false") =>
              /\ wrapper.pc = "threw"
              /\ wrapper.started = 0
              /\ IsFailure(wrapper.out))
    /\ [][StartRecording =>
              /\ wrapper.pc = "startRecording"
              /\ wrapper.hasAudioPermission = "true"
              /\ wrapper.isMicrophoneAvailable = "true"
              /\ wrapper.started = 0]_vars

\* The wrapper has thrown because the microphone was not available, with
\* the audio permission granted; the controller was not called.
C27_Witness ==
    /\ wrapper.pc = "threw"
    /\ wrapper.hasAudioPermission = "true"
    /\ wrapper.isMicrophoneAvailable = "false"
    /\ wrapper.started = 0
    /\ wrapper.alert = "Recording Error"
    /\ ~isRecording
    /\ hist.recs = 0

\* C28: whatever the notification checks say (permission denied or its
\* request failing, notifications unsupported, checkNotificationSupport
\* throwing), the wrapper goes on to invoke the native start, once, and
\* returns what it resolved with or throws what it rejected with.
C28_NotificationNeverBlocks ==
    [][/\ (wrapper.pc = "requestNotificationPermission" /\ wrapper' # wrapper) =>
              wrapper'.pc = "checkNotificationSupport"
       /\ (wrapper.pc = "checkNotificationSupport" /\ wrapper' # wrapper) =>
              wrapper'.pc = "startRecording"
       /\ (wrapper.pc = "startRecording" /\ wrapper' # wrapper) =>
              /\ StartRecording
              /\ wrapper'.started = 1
              /\ wrapper'.out = result'
              /\ wrapper'.pc = IF result'.code = "resolved" THEN "returned"
                               ELSE "threw"]_vars

\* The wrapper has returned the path the controller resolved with, and
\* recording runs, although the notification permission was denied and
\* checkNotificationSupport threw.
C28_Witness ==
    /\ wrapper.pc = "returned"
    /\ wrapper.hasNotificationPermission = "false"
    /\ wrapper.notificationSupported = "threw"
    /\ wrapper.started = 1
    /\ wrapper.out = Settled("startRecording", "resolved", <<filePath>>)
    /\ isRecording

\* C22: on iOS a startRecording that is answered while a recorder is
\* recording fails and leaves the running recorder in place, and a
\* playRecording issued while a player is playing fails and leaves the
\* running player in place.
C22_IosStartWhileActiveRejected ==
    [][/\ (ios.audioRecorder.recording /\ result'.op = "startRecording") =>
              /\ IsFailure(result')
              /\ ios'.audioRecorder = ios.audioRecorder
              /\ ios'.files = ios.files
       /\ (ios.audioPlayer.playing /\ result'.op = "playRecording") =>
              /\ IsFailure(result')
              /\ ios'.audioPlayer = ios.audioPlayer]_vars

\* The bytes of a little-endian 32-bit field read as a number.
Field32(data, at) ==
    data[at] + 256 * data[at + 1] + 65536 * data[at + 2] + 16777216 * data[at + 3]

\* C26: when playRecording writes the container of a file with the bytes
\* p, the container is 44 + |p| bytes long, its bytes from offset 44 on are
\* p, its RIFF chunk size is |p| + 36 and its data chunk size is |p|, both
\* 32-bit little-endian; no recording is changed by the step; and
\* temp_playback.wav is never among the names getRecordings returns.
C26_WavContainerWrapsPcm ==
    /\ [][\A fileName \in FileNames :
              (/\ ios.files[fileName].exists
               /\ \/ IosPlayRecording(fileName, TRUE, TRUE)
                  \/ IosPlayRecording(fileName, TRUE, FALSE)) =>
                  LET p == ios.files[fileName].data
                      wav == ios'.files[TempWav].data
                  IN  /\ ios'.files[TempWav].exists
                      /\ Len(wav) = 44 + Len(p)
                      /\ SubSeq(wav, 45, Len(wav)) = p
                      /\ SubSeq(wav, 1, 4) = Ascii("RIFF")
                      /\ Field32(wav, 5) = Len(p) + 36
                      /\ SubSeq(wav, 37, 40) = Ascii("data")
                      /\ Field32(wav, 41) = Len(p)
                      /\ \A i \in 5..8 \cup 41..44 : wav[i] \in 0..255
                      /\ \A n \in Stamps : ios'.files[n] = ios.files[n]]_vars
    /\ [](~Listed(TempWav, IosGetRecordings))

\* playRecording has just resolved for a recording of one block: the
\* container is there, 44 bytes longer than the recording, which is listed.
C26_Witness ==
    /\ result = Settled("playRecording", "resolved", <<>>)
    /\ ios.audioPlayer.playing
    /\ ios.files[TempWav].exists
    /\ Len(ios.files[TempWav].data) = 44 + Len(Block)
    /\ \E n \in Stamps :
          /\ ios.files[n].data = Block
          /\ Listed(n, IosGetRecordings)

\* C29 as stated: when the playback the screen shows has played its file to
\* the end, the poll that reads the status after that sets playingFile to
\* null, puts the progress back to {0, 0} and stops the polling.
C29_PollResetsWhenPlaybackEnds ==
    [][(/\ bridge.replies # <<>>
        /\ Head(bridge.replies).kind = "poll"
        /\ Head(bridge.replies).ended
        /\ ui.playingFile # NullPath
        /\ UiResume) =>
           /\ ui'.playingFile = NullPath
           /\ ui'.playbackProgress = <<0, 0>>
           /\ ~ui'.polling]_vars

\* handleDelete calls that are waiting for the native side.
Deleting(b) ==
    Cardinality({k \in 1..Len(b.calls) : b.calls[k].kind = "delete"})
    + Cardinality({k \in 1..Len(b.replies) : b.replies[k].kind = "delete"})

\* C30: when handleDelete(fileName) was called with fileName playing on the
\* screen and deleteRecording resolved true, then at the end of the handler
\* playingFile is null and the name is gone from the list and from the
\* directory; nothing plays unless another handler is still under way, and
\* no playback stream reads a deleted file unless another handleDelete is.
C30_DeleteOfPlayingFileStopsPlayback ==
    [][(/\ bridge.replies # <<>>
        /\ Head(bridge.replies).kind = "delete"
        /\ Head(bridge.replies).seen = Head(bridge.replies).file
        /\ \/ Head(bridge.replies).stage = "stopPlayback"
           \/ Head(bridge.replies).res.code = "true"
        /\ UiResume
        /\ Len(bridge'.calls) = Len(bridge.calls)) =>
           /\ ui'.playingFile = NullPath
           /\ ~Listed(Head(bridge.replies).file, ui'.recordings)
           /\ ~FileExists(Head(bridge.replies).file)
           /\ Handlers(bridge) = 1 => (~isPlaying /\ play.pc \in {"none", "done"})
           /\ Deleting(bridge) = 1 => play.ino \notin Detached]_vars

\* C30 witness: the file was playing, not yet to its end, when it was
\* deleted; its handler has stopped the playback and ended.
C30_Witness ==
    /\ ui.playingFile = NullPath
    /\ ui.statusMessage = "Recording deleted."
    /\ ~ui.polling
    /\ bridge.calls = <<>>
    /\ bridge.replies = <<>>
    /\ ~isPlaying
    /\ play.pc = "done"
    /\ play.exit = "flag"
    /\ playbackBytesWritten < playbackTotalBytes
    /\ \E n \in Stamps : ~FileExists(n) /\ ~Listed(n, ui.recordings)
    /\ hist.plays = 0

\* A thread's stream apart from the number of its inode: where the thread
\* is, whether it has a file open, and the bytes of that file.
StreamOf(t, sizes) ==
    <<[t EXCEPT !.ino = NoInode], t.ino = NoInode,
      IF t.ino = NoInode THEN 0 ELSE sizes[t.ino]>>

Paired == serviceRequested <=> isRecording

\* C34 as stated: at every call boundary the foreground recording service
\* has been requested to run if and only if capture is Active.  Stated for
\* the calls in which the service itself does what it is asked: a
\* startRecording that begins with the two paired ends with them paired,
\* and an accepted stopRecording ends with them paired whether it succeeds
\* or fails.
C34_ServicePairedWithCapture ==
    [][/\ \A granted, probe, acq, devStart \in BOOLEAN :
              (Paired /\ StartRecordingWith(granted, probe, acq, devStart, TRUE)) =>
                  Paired'
       /\ \A devStop \in BOOLEAN :
              StopRecordingJoinedWith(devStop, TRUE) => Paired']_vars

\* handlePlayPause calls that are waiting for the native side.
Toggling(b) ==
    \/ \E k \in 1..Len(b.calls) : b.calls[k].kind = "toggle"
    \/ \E k \in 1..Len(b.replies) : b.replies[k].kind = "toggle"

\* C33 as stated: whenever no handlePlayPause is under way and playingFile
\* is a file, the playback session the controller started last (running or
\* just finished) is of that file.
C33_PlayingFileIsNativeSession ==
    (~Toggling(bridge) /\ ui.playingFile # NullPath) =>
        bridge.session = ui.playingFile

\* handleRecordPress calls that are waiting for the native side.
RecordPressed(b) ==
    \/ \E k \in 1..Len(b.calls) : b.calls[k].kind = "record"
    \/ \E k \in 1..Len(b.replies) : b.replies[k].kind = "record"

\* C32 as stated: whenever no handleRecordPress is under way, the screen's
\* isRecording equals the controller's capture state.
C32_ScreenAgreesWithCapture ==
    ~RecordPressed(bridge) => (ui.isRecording <=> isRecording)
====
